---- MODULE Spec2Model ----
(***************************************************************************)
(* Model of src/cryptoChain/chains/FilecoinChain.js: the Filecoin chain    *)
(* adapter.  retryFunc (the failover loop over allRpcUrls), the four       *)
(* operations built on it (getBalance, getEstimateFee, send,               *)
(* waitForConfirmation) and calculateFilecoinGasFee.                       *)
(***************************************************************************)
EXTENDS Integers, Sequences, FiniteSets, TLC

VARIABLES
    allRpcUrls,        \* the endpoint pool of this adapter (line 21)
    pc,                \* position of the running call: idle, loop, cb, race, done
    kind,              \* which operation is running
    defaultResponse,   \* retryFunc's second argument for the running call
    i,                 \* retryFunc's loop index (0-based, as in the code)
    conn,              \* URL the current attempt's connector was built for
    log,               \* attempts of the running call, in order
    result,            \* how the running call settled
    payload,           \* the object a getEstimateFee call returned
    netEst,            \* what the network answered in the attempt that produced payload
    sendArgs,          \* the estimateGas bundle the running send was called with
    msgs,              \* the messages the running send passed to createMessage
    accepted,          \* attempts of the running send whose submission a node accepted
    receipts,          \* <<attempt, exit code>> of the receipts waitMsg gave to a race
    late,              \* branches of earlier races still in flight
    lateSettled,       \* how many abandoned branches settled after their race
    calcArgs,          \* arguments of the running call's calculateFilecoinGasFee call
    calcOut,           \* how that call ended
    txArg,             \* how FilScan.getTransactions settled in the getTransactions call
    txOut,             \* how that getTransactions call ended
    keyArg,            \* what the address/key library does in the validation call
    keyOut,            \* how that isValidAddress / isValidPrivateKey call ended
    other,             \* a second retryFunc call running at the same time
    waitErrs,          \* <<attempt, code>> of the errors waitMsg gave to a race
    clock              \* the running call's interval and retries, and the time passed

vars == <<allRpcUrls, pc, kind, defaultResponse, i, conn, log, result, payload,
          netEst, sendArgs, msgs, accepted, receipts, late, lateSettled,
          calcArgs, calcOut, txArg, txOut, keyArg, keyOut, other, waitErrs,
          clock>>

(* the state of the operations that do not go through the running call *)
restVars == <<txArg, txOut, keyArg, keyOut, other>>

----------------------------------------------------------------------------
(* Bounds *)
MaxPool == 3
MaxGas == 4

(* Endpoint descriptors: opaque strings. *)
RpcUrlNames == <<"rpc1", "rpc2", "rpc3", "rpc4", "rpc5", "rpc6">>

Min(a, b) == IF a < b THEN a ELSE b

Max(a, b) == IF a > b THEN a ELSE b

Pools == { SubSeq(RpcUrlNames, 1, n) : n \in 0..Min(MaxPool, Len(RpcUrlNames)) }

----------------------------------------------------------------------------
(* Natural numbers of any size: the decimal digits of the number, least   *)
(* significant first, without leading zeros; <<>> is 0.  The arithmetic    *)
(* works on limbs of four digits, as bignumber.js works on a coefficient   *)
(* array of larger base.                                                   *)
Dig(a, k) == IF k <= Len(a) THEN a[k] ELSE 0

(* the number of leading elements of a that are 0, at most cap *)
LowZeros(a, cap) ==
    LET n == Min(cap, Len(a))
    IN  IF n = 0 \/ a[1] # 0 THEN 0
        ELSE CHOOSE k \in 1..n :
                 /\ \A j \in 1..k : a[j] = 0
                 /\ (k = n \/ a[k + 1] # 0)

(* a without its trailing elements that are 0 *)
NatTrim(a) ==
    IF \A j \in 1..Len(a) : a[j] = 0 THEN <<>>
    ELSE SubSeq(a, 1, CHOOSE k \in 1..Len(a) :
                          a[k] # 0 /\ \A j \in (k + 1)..Len(a) : a[j] = 0)

RECURSIVE NatFromInt(_)
NatFromInt(n) == IF n = 0 THEN <<>> ELSE <<n % 10>> \o NatFromInt(n \div 10)

Zeros(k) == [j \in 1..k |-> 0]

NatShift(a, k) == IF a = <<>> THEN <<>> ELSE Zeros(k) \o a

LimbBase == 10 * 10 * 10 * 10

LimbSeq == Seq(0..(LimbBase - 1))

ToLimbs(d) ==
    [k \in 1..((Len(d) + 3) \div 4) |->
        Dig(d, 4 * k - 3) + 10 * Dig(d, 4 * k - 2)
            + 100 * Dig(d, 4 * k - 1) + 1000 * Dig(d, 4 * k)]

FromLimbs(l) ==
    NatTrim([j \in 1..(4 * Len(l)) |->
        LET w == l[((j - 1) \div 4) + 1]
            r == (j - 1) % 4
        IN  IF r = 0 THEN w % 10
            ELSE IF r = 1 THEN (w \div 10) % 10
            ELSE IF r = 2 THEN (w \div 100) % 10
            ELSE w \div 1000])

Tail0(a) == IF a = <<>> THEN <<>> ELSE Tail(a)

(* t = <<a, b, carry>> *)
LAddF[t \in LimbSeq \X LimbSeq \X {0, 1}] ==
    IF t[1] = <<>> /\ t[2] = <<>> THEN (IF t[3] = 0 THEN <<>> ELSE <<t[3]>>)
    ELSE LET s == Dig(t[1], 1) + Dig(t[2], 1) + t[3]
         IN  <<s % LimbBase>> \o LAddF[<<Tail0(t[1]), Tail0(t[2]), s \div LimbBase>>]

(* t = <<a, b, borrow>>, a >= b *)
LSubF[t \in LimbSeq \X LimbSeq \X {0, 1}] ==
    IF t[1] = <<>> THEN <<>>
    ELSE LET d == t[1][1] - Dig(t[2], 1) - t[3]
         IN  IF d < 0 THEN <<d + LimbBase>> \o LSubF[<<Tail(t[1]), Tail0(t[2]), 1>>]
                      ELSE <<d>> \o LSubF[<<Tail(t[1]), Tail0(t[2]), 0>>]

(* t = <<a, multiplier below LimbBase, carry>> *)
LMulDF[t \in LimbSeq \X Nat \X Nat] ==
    IF t[1] = <<>> THEN (IF t[3] = 0 THEN <<>> ELSE <<t[3]>>)
    ELSE LET s == t[1][1] * t[2] + t[3]
         IN  <<s % LimbBase>> \o LMulDF[<<Tail(t[1]), t[2], s \div LimbBase>>]

LMulD(a, d) == NatTrim(LMulDF[<<a, d, 0>>])

(* t = <<a, b>> *)
LMulF[t \in LimbSeq \X LimbSeq] ==
    IF t[2] = <<>> THEN <<>>
    ELSE LAddF[<<LMulDF[<<t[1], t[2][1], 0>>], <<0>> \o LMulF[<<t[1], Tail(t[2])>>], 0>>]

(* -1, 0, 1 as a < b, a = b, a > b; a and b without leading zeros *)
LCmp(a, b) ==
    IF Len(a) < Len(b) THEN -1
    ELSE IF Len(a) > Len(b) THEN 1
    ELSE IF a = b THEN 0
    ELSE LET k == CHOOSE k \in 1..Len(a) :
                      a[k] # b[k] /\ \A j \in (k + 1)..Len(a) : a[j] = b[j]
         IN  IF a[k] < b[k] THEN -1 ELSE 1

(* t = <<lo, hi, r, b>> with b*lo <= r < b*hi: the q with b*q <= r < b*(q+1) *)
LQuotF[t \in Nat \X Nat \X LimbSeq \X LimbSeq] ==
    IF t[2] - t[1] = 1 THEN t[1]
    ELSE LET mid == (t[1] + t[2]) \div 2
         IN  IF LCmp(LMulD(t[4], mid), t[3]) <= 0
             THEN LQuotF[<<mid, t[2], t[3], t[4]>>]
             ELSE LQuotF[<<t[1], mid, t[3], t[4]>>]

(* t = <<a, b, k, q, r>>: limbs k..1 of a are still to be brought down *)
LDivF[t \in LimbSeq \X LimbSeq \X Nat \X LimbSeq \X LimbSeq] ==
    IF t[3] = 0 THEN [q |-> NatTrim(t[4]), r |-> t[5]]
    ELSE LET r1 == NatTrim(<<t[1][t[3]]>> \o t[5])
             qd == LQuotF[<<0, LimbBase, r1, t[2]>>]
             r2 == NatTrim(LSubF[<<r1, LMulD(t[2], qd), 0>>])
         IN  LDivF[<<t[1], t[2], t[3] - 1, <<qd>> \o t[4], r2>>]

NatAdd(a, b) == FromLimbs(LAddF[<<ToLimbs(a), ToLimbs(b), 0>>])

(* a - b for a >= b *)
NatSub(a, b) == FromLimbs(LSubF[<<ToLimbs(a), ToLimbs(b), 0>>])

(* -1, 0, 1 as a < b, a = b, a > b *)
NatCmp(a, b) == LCmp(ToLimbs(a), ToLimbs(b))

NatMul(a, b) == FromLimbs(LMulF[<<ToLimbs(a), ToLimbs(b)>>])

(* quotient and remainder of a by b, b > 0: schoolbook long division *)
NatDivMod(a, b) ==
    LET la == ToLimbs(a)
        qr == LDivF[<<la, ToLimbs(b), Len(la), <<>>, <<>>>>]
    IN  [q |-> FromLimbs(qr.q), r |-> FromLimbs(qr.r)]

----------------------------------------------------------------------------
(* bignumber.js values.  k is "num", "nan" or "inf"; a "num" is            *)
(* (-1)^neg * m * 10^(-dp) with m a natural number and dp minimal.         *)
BN(k, neg, m, dp) == [k |-> k, neg |-> neg, m |-> m, dp |-> dp]

BNNaN == BN("nan", FALSE, <<>>, 0)
BNInf(neg) == BN("inf", neg, <<>>, 0)

(* trailing zeros of the fraction are dropped *)
BNNorm(neg, m, dp) ==
    LET z == LowZeros(m, dp)
    IN  IF m = <<>> THEN BN("num", neg, <<>>, 0)
        ELSE BN("num", neg, SubSeq(m, z + 1, Len(m)), dp - z)

(* new BigNumber(n) for a JavaScript integer n *)
BNInt(n) == IF n < 0 THEN BN("num", TRUE, NatFromInt(-n), 0)
                     ELSE BN("num", FALSE, NatFromInt(n), 0)

BNIsZero(x) == x.k = "num" /\ x.m = <<>>

(* the coefficient of x at dp decimal places, dp >= x.dp *)
Scaled(x, dp) == NatShift(x.m, dp - x.dp)

(* x.times(y) *)
times(x, y) ==
    IF x.k = "nan" \/ y.k = "nan" THEN BNNaN
    ELSE IF x.k = "inf" \/ y.k = "inf"
         THEN IF BNIsZero(x) \/ BNIsZero(y) THEN BNNaN
              ELSE BNInf(x.neg # y.neg)
    ELSE BNNorm(x.neg # y.neg, NatMul(x.m, y.m), x.dp + y.dp)

(* x.plus(y) *)
plus(x, y) ==
    IF x.k = "nan" \/ y.k = "nan" THEN BNNaN
    ELSE IF x.k = "inf" /\ y.k = "inf"
         THEN IF x.neg = y.neg THEN x ELSE BNNaN
    ELSE IF x.k = "inf" THEN x
    ELSE IF y.k = "inf" THEN y
    ELSE LET dp == Max(x.dp, y.dp)
             a == Scaled(x, dp)
             b == Scaled(y, dp)
             c == NatCmp(a, b)
         IN  IF x.neg = y.neg THEN BNNorm(x.neg, NatAdd(a, b), dp)
             ELSE IF c = 0 THEN BN("num", FALSE, <<>>, 0)
             ELSE IF c > 0 THEN BNNorm(x.neg, NatSub(a, b), dp)
             ELSE BNNorm(y.neg, NatSub(b, a), dp)

BNNegate(x) == IF x.k = "nan" THEN x ELSE [x EXCEPT !.neg = ~x.neg]

(* x.minus(y) *)
minus(x, y) == plus(x, BNNegate(y))

(* BigNumber's DECIMAL_PLACES default: div rounds to this many places *)
DECIMAL_PLACES == 20

(* ROUNDING_MODE default ROUND_HALF_UP: a quotient q with remainder r of   *)
(* the divisor b is rounded away from zero when 2r >= b.                   *)
RoundHalfUp(q, r, b) ==
    IF NatCmp(NatAdd(r, r), b) >= 0 THEN NatAdd(q, <<1>>) ELSE q

(* x.div(y) *)
div(x, y) ==
    IF x.k = "nan" \/ y.k = "nan" THEN BNNaN
    ELSE IF x.k = "inf" /\ y.k = "inf" THEN BNNaN
    ELSE IF BNIsZero(x) /\ BNIsZero(y) THEN BNNaN
    ELSE IF BNIsZero(x) \/ y.k = "inf" THEN BN("num", x.neg # y.neg, <<>>, 0)
    ELSE IF BNIsZero(y) \/ x.k = "inf" THEN BNInf(x.neg # y.neg)
    ELSE LET \* x/y = (x.m * 10^(y.dp + P)) / (y.m * 10^x.dp) * 10^(-P)
             num == NatShift(x.m, y.dp + DECIMAL_PLACES)
             den == NatShift(y.m, x.dp)
             qr == NatDivMod(num, den)
         IN  BNNorm(x.neg # y.neg, RoundHalfUp(qr.q, qr.r, den), DECIMAL_PLACES)

(* x.gt(y): false when either is NaN *)
gt(x, y) ==
    IF x.k = "nan" \/ y.k = "nan" THEN FALSE
    ELSE LET d == minus(x, y)
         IN  IF d.k = "nan" THEN FALSE
             ELSE IF d.k = "inf" THEN ~d.neg
             ELSE d.m # <<>> /\ ~d.neg

(* numeric equality (0 and -0 are equal, NaN equals nothing) *)
BNEq(x, y) ==
    /\ x.k # "nan" /\ y.k # "nan"
    /\ \/ BNIsZero(x) /\ BNIsZero(y)
       \/ x = y

----------------------------------------------------------------------------
(* Strings that are looked into are sequences of one-character strings.    *)
DigitChars == <<"0", "1", "2", "3", "4", "5", "6", "7", "8", "9">>

CharOf(d) == DigitChars[d + 1]

IsDigit(c) == \E d \in 0..9 : DigitChars[d + 1] = c

DigitOf(c) == CHOOSE d \in 0..9 : DigitChars[d + 1] = c

Reverse(a) == [j \in 1..Len(a) |-> a[Len(a) + 1 - j]]

(* decimal digits of a natural number, "0" for 0 *)
NatStr(m) == IF m = <<>> THEN <<"0">> ELSE [j \in 1..Len(m) |-> CharOf(m[Len(m) + 1 - j])]

(* String(n) for a JavaScript integer n of small magnitude *)
IntStr(n) == IF n < 0 THEN <<"-">> \o NatStr(NatFromInt(-n)) ELSE NatStr(NatFromInt(n))

StripLow(m) == SubSeq(m, LowZeros(m, Len(m)) + 1, Len(m))

(* coeffToString: the significant digits, no trailing zeros *)
coeffToString(m) == NatStr(StripLow(m))

(* toString's thresholds: exponential notation at and beneath TO_EXP_NEG,  *)
(* at and above TO_EXP_POS (bignumber.js defaults).                        *)
TO_EXP_NEG == -7
TO_EXP_POS == 21

toExponential(str, e) ==
    (IF Len(str) > 1 THEN <<str[1], ".">> \o Tail(str) ELSE str)
        \o (IF e < 0 THEN <<"e">> ELSE <<"e", "+">>) \o IntStr(e)

toFixedPoint(str, e) ==
    IF e < 0 THEN <<"0", ".">> \o [j \in 1..(-e - 1) |-> "0"] \o str
    ELSE IF e + 1 > Len(str) THEN str \o [j \in 1..(e + 1 - Len(str)) |-> "0"]
    ELSE IF e + 1 < Len(str)
         THEN SubSeq(str, 1, e + 1) \o <<".">> \o SubSeq(str, e + 2, Len(str))
    ELSE str

(* x.toString() *)
toString(x) ==
    IF x.k = "nan" THEN <<"N", "a", "N">>
    ELSE IF x.k = "inf"
         THEN (IF x.neg THEN <<"-">> ELSE <<>>)
                  \o <<"I", "n", "f", "i", "n", "i", "t", "y">>
    ELSE IF x.m = <<>> THEN <<"0">>
    ELSE LET e == Len(x.m) - 1 - x.dp
             c == coeffToString(x.m)
             str == IF e <= TO_EXP_NEG \/ e >= TO_EXP_POS
                    THEN toExponential(c, e) ELSE toFixedPoint(c, e)
         IN  (IF x.neg THEN <<"-">> ELSE <<>>) \o str

IndexOf(str, c) ==
    IF \E k \in 1..Len(str) : str[k] = c
    THEN CHOOSE k \in 1..Len(str) : str[k] = c /\ \A j \in 1..(k - 1) : str[j] # c
    ELSE 0

AllDigits(str) == \A k \in 1..Len(str) : IsDigit(str[k])

DigitsToNat(str) == NatTrim([j \in 1..Len(str) |-> DigitOf(str[Len(str) + 1 - j])])

RECURSIVE DigitsToInt(_)
DigitsToInt(str) ==
    IF str = <<>> THEN 0
    ELSE 10 * DigitsToInt(SubSeq(str, 1, Len(str) - 1)) + DigitOf(str[Len(str)])

(* new BigNumber(str): an optional "-", digits with an optional fraction   *)
(* (or a fraction alone), an optional exponent "e", sign, digits; or one   *)
(* of "NaN", "Infinity", "-Infinity".  Anything else is NaN.               *)
BigNumber(str) ==
    IF str = <<>> \/ str = <<"N", "a", "N">> THEN BNNaN
    ELSE LET neg == str[1] = "-"
             body == IF neg THEN Tail(str) ELSE str
             ePos == IndexOf(body, "e")
             mant == IF ePos = 0 THEN body ELSE SubSeq(body, 1, ePos - 1)
             expo == IF ePos = 0 THEN <<>> ELSE SubSeq(body, ePos + 1, Len(body))
             eNeg == expo # <<>> /\ expo[1] = "-"
             eDig == IF expo # <<>> /\ expo[1] \in {"-", "+"} THEN Tail(expo) ELSE expo
             dot == IndexOf(mant, ".")
             ip == IF dot = 0 THEN mant ELSE SubSeq(mant, 1, dot - 1)
             fp == IF dot = 0 THEN <<>> ELSE SubSeq(mant, dot + 1, Len(mant))
             valid == /\ AllDigits(ip) /\ AllDigits(fp)
                      /\ (Len(ip) > 0 \/ Len(fp) > 0)
                      /\ (ePos = 0 \/ (Len(eDig) > 0 /\ AllDigits(eDig)))
             ex == IF eNeg THEN -DigitsToInt(eDig) ELSE DigitsToInt(eDig)
             m == DigitsToNat(ip \o fp)
             dp == Len(fp) - ex
         IN  IF body = <<"I", "n", "f", "i", "n", "i", "t", "y">> THEN BNInf(neg)
             ELSE IF ~valid THEN BNNaN
             ELSE IF dp < 0 THEN BNNorm(neg, NatShift(m, -dp), 0)
             ELSE BNNorm(neg, m, dp)

----------------------------------------------------------------------------
(* calculateFilecoinGasFee, were the tolerance factor 12/10 *)
calculateFilecoinGasFeeWiderBand(gasUsed, gasLimit, baseFee, gasPremium) ==
    LET bnGasUsed == BigNumber(gasUsed)
        bnGasLimit == BigNumber(gasLimit)
        bnBaseFee == BigNumber(baseFee)
        bnGasPremium == BigNumber(gasPremium)
        overEstimation ==
            minus(bnGasLimit, div(times(bnGasUsed, BNInt(12)), BNInt(10)))
        overEstimationBurn ==
            IF gt(overEstimation, BNInt(0))
            THEN div(times(overEstimation, minus(bnGasLimit, bnGasUsed)), bnGasUsed)
            ELSE BNInt(0)
        totalFee ==
            plus(plus(times(bnGasUsed, bnBaseFee), times(bnGasLimit, bnGasPremium)),
                 times(overEstimationBurn, bnBaseFee))
    IN  toString(totalFee)

(* calculateFilecoinGasFee (lines 43-59); the arguments are strings.       *)
calculateFilecoinGasFee(gasUsed, gasLimit, baseFee, gasPremium) ==
    LET bnGasUsed == BigNumber(gasUsed)
        bnGasLimit == BigNumber(gasLimit)
        bnBaseFee == BigNumber(baseFee)
        bnGasPremium == BigNumber(gasPremium)
        overEstimation ==
            minus(bnGasLimit, div(times(bnGasUsed, BNInt(11)), BNInt(10)))
        overEstimationBurn ==
            IF gt(overEstimation, BNInt(0))
            THEN div(times(overEstimation, minus(bnGasLimit, bnGasUsed)), bnGasUsed)
            ELSE BNInt(0)
        totalFee ==
            plus(plus(times(bnGasUsed, bnBaseFee), times(bnGasLimit, bnGasPremium)),
                 times(overEstimationBurn, bnBaseFee))
    IN  toString(totalFee)

----------------------------------------------------------------------------
(* JavaScript values the calls return or throw.  t is the type, s a string *)
(* payload, code the numeric payload (an error's code, -1 when the error   *)
(* has none; a receipt's exit code), from the attempt (1-based) that       *)
(* produced the value, 0 for a value no attempt produced.                  *)
JV(t, s, code, from) == [t |-> t, s |-> s, code |-> code, from |-> from]

Undefined == JV("undefined", "", 0, 0)
Null == JV("null", "", 0, 0)
StrDefault(s) == JV("string", s, 0, 0)

(* Truthy, were the test "defaultResponse !== undefined" *)
TruthyUnlessUndefined(v) == v.t # "undefined"

(* if (defaultResponse): JavaScript truthiness of the values used here. *)
Truthy(v) ==
    /\ v.t \notin {"undefined", "null"}
    /\ ~(v.t = "string" /\ v.s = "")

NoResult == [how |-> "none", val |-> Undefined]

None == [none |-> TRUE]

(* Values of the collaborators (node, explorer) the model draws from. *)
Balances == {"0", "125"}

(* error codes: -1 stands for an error without a code property *)
ErrorCodes == {-1, 404, 500}

NetError(what, code, att) == JV("error", what, code, att)

Str(chars) == [ty |-> "string", chars |-> chars]
Big(bn) == [ty |-> "BigNumber", bn |-> bn]

(* v.toString() of a value that is a string or a BigNumber *)
ToStringOf(v) == IF v.ty = "string" THEN v.chars ELSE toString(v.bn)

(* the number a network value stands for *)
NumOf(v) == IF v.ty = "string" THEN BigNumber(v.chars) ELSE v.bn

E21 == BN("num", FALSE, Zeros(21) \o <<1>>, 0)

Nonces == {0, 7}
GasLimits == {2000000}
GasFeeCaps == {Str(IntStr(100)), Big(plus(E21, BNInt(5))), Big(BNInt(101))}
GasPremiums == {Str(IntStr(10)), Big(times(E21, BNInt(3)))}
TransactionFees == { [baseFee |-> IntStr(100), gasUsed |-> IntStr(g)] : g \in {0, 1000000} }

(* a call of calculateFilecoinGasFee with the strings args: it has no      *)
(* throw statement and BigNumber does not throw on any string              *)
CallCalc(args) ==
    [how |-> "returned",
     str |-> calculateFilecoinGasFee(args[1], args[2], args[3], args[4])]

(* where a send attempt can fail; "lostReply" is a submission the node     *)
(* accepted whose reply did not arrive                                      *)
SendFailures == {"newAddress", "rejected", "lostReply"}

----------------------------------------------------------------------------
(* retryFunc (lines 23-41) *)

(* IsLastEndpoint, were the test "i === allRpcUrls.length" *)
IsLastEndpointOffByOne(idx) == idx = Len(allRpcUrls)

(* line 32: i === allRpcUrls.length - 1 *)
IsLastEndpoint(idx) == idx = Len(allRpcUrls) - 1

Return(v) ==
    /\ result' = [how |-> "returned", val |-> v]
    /\ pc' = "done"
    /\ i' = i

Throw(e) ==
    /\ result' = [how |-> "raised", val |-> e]
    /\ pc' = "done"
    /\ i' = i

(* ReturnAwait, were the result kept and the loop continued *)
ReturnAwaitGoesOn(v) ==
    /\ result' = [how |-> "returned", val |-> v]
    /\ i' = i + 1
    /\ pc' = "loop"

(* line 29: return await cb(...) when cb's promise fulfils with v *)
ReturnAwait(v) == Return(v)

(* RetryCatch, were the index advanced once more than the loop does *)
RetryCatchSkipsOne(e) ==
    IF IsLastEndpoint(i)
    THEN IF Truthy(defaultResponse) THEN Return(defaultResponse) ELSE Throw(e)
    ELSE /\ i' = i + 2
         /\ pc' = "loop"
         /\ result' = result

(* RetryCatch, were the error re-thrown whatever the endpoint *)
RetryCatchRethrows(e) == Throw(e)

(* lines 30-39: the catch block *)
RetryCatch(e) ==
    IF IsLastEndpoint(i)
    THEN IF Truthy(defaultResponse) THEN Return(defaultResponse) ELSE Throw(e)
    ELSE /\ i' = i + 1
         /\ pc' = "loop"
         /\ result' = result

Attempt(invoked, ok, v) ==
    [idx |-> i + 1, url |-> conn, invoked |-> invoked, ok |-> ok, val |-> v]

(* the attempt's callback fulfilled with v *)
CbFulfil(v) ==
    /\ log' = Append(log, Attempt(TRUE, TRUE, v))
    /\ ReturnAwait(v)

(* the attempt's callback rejected with e *)
CbReject(e) ==
    /\ log' = Append(log, Attempt(TRUE, FALSE, e))
    /\ RetryCatch(e)

(* Enter, were the index of the previous call kept *)
EnterKeepsIndex(k, dflt) ==
    /\ pc \in {"idle", "done"}
    /\ kind' = k
    /\ defaultResponse' = dflt
    /\ i' = IF pc = "done" /\ i < Len(allRpcUrls) THEN i ELSE 0
    /\ pc' = "loop"
    /\ conn' = ""
    /\ log' = <<>>
    /\ result' = NoResult
    /\ msgs' = <<>>
    /\ accepted' = {}
    /\ receipts' = {}
    /\ waitErrs' = {}
    /\ late' = {}
    /\ lateSettled' = 0
    /\ calcArgs' = None
    /\ calcOut' = None
    /\ UNCHANGED allRpcUrls

(* a call of retryFunc(cb, dflt) by operation k *)
Enter(k, dflt) ==
    /\ pc \in {"idle", "done"}
    /\ kind' = k
    /\ defaultResponse' = dflt
    /\ i' = 0
    /\ pc' = "loop"
    /\ conn' = ""
    /\ log' = <<>>
    /\ result' = NoResult
    /\ msgs' = <<>>
    /\ accepted' = {}
    /\ receipts' = {}
    /\ waitErrs' = {}
    /\ late' = {}
    /\ lateSettled' = 0
    /\ calcArgs' = None
    /\ calcOut' = None
    /\ UNCHANGED allRpcUrls

(* bound: the retries argument of waitForConfirmation *)
MaxRetries == 1

(* the interval argument, in units of time *)
Intervals == {1, 2}
Retries == 1..MaxRetries

(* time of the running call, in the unit of interval: waited since the     *)
(* current attempt's timer was set, elapsed since the call was made        *)
NoClock == [interval |-> 0, retries |-> 0, waited |-> 0, elapsed |-> 0]

(* line 96 *)
CallGetBalance ==
    /\ Enter("getBalance", StrDefault("0"))
    /\ payload' = None /\ netEst' = None /\ sendArgs' = None
    /\ UNCHANGED restVars
    /\ clock' = NoClock

(* line 106 *)
CallGetEstimateFee ==
    /\ Enter("getEstimateFee", Null)
    /\ payload' = None /\ netEst' = None /\ sendArgs' = None
    /\ UNCHANGED restVars
    /\ clock' = NoClock

(* an estimateGas the caller made itself *)
OwnEstimateGas ==
    [nonce |-> 0, gasLimit |-> 2000000, gasFeeCap |-> IntStr(100), gasPremium |-> IntStr(10)]

(* line 159: the caller passes the estimateGas of the fee result it holds, *)
(* or one of its own when it holds none                                    *)
CallSend ==
    /\ \/ /\ kind = "getEstimateFee" /\ result.how = "returned" /\ payload # None
          /\ sendArgs' = payload.estimateGas
       \/ /\ payload = None
          /\ sendArgs' = OwnEstimateGas
    /\ Enter("send", Null)
    /\ UNCHANGED <<payload, netEst>>
    /\ UNCHANGED restVars
    /\ clock' = NoClock

(* line 194 *)
CallWaitForConfirmation ==
    /\ Enter("waitForConfirmation", Null)
    /\ payload' = None /\ netEst' = None /\ sendArgs' = None
    /\ UNCHANGED restVars
    /\ \E interval \in Intervals, retries \in Retries :
         clock' = [interval |-> interval, retries |-> retries, waited |-> 0, elapsed |-> 0]

(* LoopExit, were the fallback returned after the loop *)
LoopExitReturnsFallback ==
    /\ pc = "loop"
    /\ ~(i < Len(allRpcUrls))
    /\ result' = [how |-> "returned", val |-> defaultResponse]
    /\ pc' = "done"
    /\ UNCHANGED <<allRpcUrls, kind, defaultResponse, i, conn, log, payload, netEst,
                   sendArgs, msgs, accepted, late, lateSettled, receipts,
                   calcArgs, calcOut>>
    /\ UNCHANGED restVars
    /\ UNCHANGED waitErrs
    /\ UNCHANGED clock

(* line 24: the loop condition fails; the function ends without a return *)
LoopExit ==
    /\ pc = "loop"
    /\ ~(i < Len(allRpcUrls))
    /\ result' = [how |-> "returned", val |-> Undefined]
    /\ pc' = "done"
    /\ UNCHANGED <<allRpcUrls, kind, defaultResponse, i, conn, log, payload, netEst,
                   sendArgs, msgs, accepted, late, lateSettled, receipts,
                   calcArgs, calcOut>>
    /\ UNCHANGED restVars
    /\ UNCHANGED waitErrs
    /\ UNCHANGED clock

(* Connect, were a connection that exists kept for the next attempt *)
ConnectReusesConnection ==
    /\ pc = "loop"
    /\ i < Len(allRpcUrls)
    /\ conn' = IF conn = "" THEN allRpcUrls[i + 1] ELSE conn
    /\ pc' = IF kind = "waitForConfirmation" THEN "race" ELSE "cb"
    /\ UNCHANGED <<allRpcUrls, kind, defaultResponse, i, log, result, payload, netEst,
                   sendArgs, msgs, accepted, late, lateSettled, receipts,
                   calcArgs, calcOut>>
    /\ UNCHANGED restVars
    /\ UNCHANGED waitErrs
    /\ clock' = [clock EXCEPT !.waited = 0]

(* lines 26-29: the connection stack is built for allRpcUrls[i] and cb is  *)
(* invoked with it.  waitForConfirmation's cb starts its race at once.     *)
Connect ==
    /\ pc = "loop"
    /\ i < Len(allRpcUrls)
    /\ conn' = allRpcUrls[i + 1]
    /\ pc' = IF kind = "waitForConfirmation" THEN "race" ELSE "cb"
    /\ UNCHANGED <<allRpcUrls, kind, defaultResponse, i, log, result, payload, netEst,
                   sendArgs, msgs, accepted, late, lateSettled, receipts,
                   calcArgs, calcOut>>
    /\ UNCHANGED restVars
    /\ UNCHANGED waitErrs
    /\ clock' = [clock EXCEPT !.waited = 0]

(* lines 26-28 throw: the catch block runs without cb having been invoked *)
ConnectThrows ==
    /\ pc = "loop"
    /\ i < Len(allRpcUrls)
    /\ conn' = ""
    /\ log' = Append(log, [idx |-> i + 1, url |-> "", invoked |-> FALSE, ok |-> FALSE,
                           val |-> NetError("connector", -1, i + 1)])
    /\ RetryCatch(NetError("connector", -1, i + 1))
    /\ UNCHANGED <<allRpcUrls, kind, defaultResponse, payload, netEst,
                   sendArgs, msgs, accepted, late, lateSettled, receipts,
                   calcArgs, calcOut>>
    /\ UNCHANGED restVars
    /\ UNCHANGED waitErrs
    /\ UNCHANGED clock

(* lines 99-100: wallet.getBalance answered *)
BalanceResolves ==
    /\ pc = "cb" /\ kind = "getBalance"
    /\ \E b \in Balances : CbFulfil(JV("string", b, 0, i + 1))
    /\ UNCHANGED <<allRpcUrls, kind, defaultResponse, conn, payload, netEst,
                   sendArgs, msgs, accepted, late, lateSettled, receipts,
                   calcArgs, calcOut>>
    /\ UNCHANGED restVars
    /\ UNCHANGED waitErrs
    /\ UNCHANGED clock

(* lines 101-104: wallet.getBalance failed; the error is thrown again *)
BalanceRejects ==
    /\ pc = "cb" /\ kind = "getBalance"
    /\ \E c \in ErrorCodes : CbReject(NetError("getBalance", c, i + 1))
    /\ UNCHANGED <<allRpcUrls, kind, defaultResponse, conn, payload, netEst,
                   sendArgs, msgs, accepted, late, lateSettled, receipts,
                   calcArgs, calcOut>>
    /\ UNCHANGED restVars
    /\ UNCHANGED waitErrs
    /\ UNCHANGED clock

(* lines 109-133: nonce, gas estimate and fee snapshot arrived *)
EstimateResolves ==
    /\ pc = "cb" /\ kind = "getEstimateFee"
    /\ \E GasLimit \in GasLimits, GasPremium \in GasPremiums, fees \in TransactionFees :
         LET args == <<fees.gasUsed, IntStr(GasLimit), fees.baseFee, ToStringOf(GasPremium)>>
         IN  /\ calcArgs' = args
             /\ calcOut' = CallCalc(args)
             /\ \E nonce \in Nonces, GasFeeCap \in GasFeeCaps :
                  /\ payload' = [fee |-> [parseBalance |-> calcOut'.str, decimals |-> 18],
                                 estimateGas |-> [nonce |-> nonce,
                                                  gasLimit |-> GasLimit,
                                                  gasFeeCap |-> ToStringOf(GasFeeCap),
                                                  gasPremium |-> ToStringOf(GasPremium)]]
                  /\ netEst' = [nonce |-> nonce, GasLimit |-> GasLimit,
                                GasFeeCap |-> GasFeeCap, GasPremium |-> GasPremium]
             /\ CbFulfil(JV("feeResult", "", 0, i + 1))
    /\ UNCHANGED <<allRpcUrls, kind, defaultResponse, conn,
                   sendArgs, msgs, accepted, late, lateSettled, receipts>>
    /\ UNCHANGED restVars
    /\ UNCHANGED waitErrs
    /\ UNCHANGED clock

(* lines 134-137: one of the awaited calls failed *)
EstimateRejects ==
    /\ pc = "cb" /\ kind = "getEstimateFee"
    /\ \E what \in {"getNonce", "estimateMessageGas", "getTransactionFees"} :
         CbReject(NetError(what, -1, i + 1))
    /\ UNCHANGED <<allRpcUrls, kind, defaultResponse, conn, payload, netEst,
                   sendArgs, msgs, accepted, late, lateSettled, receipts,
                   calcArgs, calcOut>>
    /\ UNCHANGED restVars
    /\ UNCHANGED waitErrs
    /\ UNCHANGED clock

(* SendMessage, were GasFeeCap built from the premium *)
SendMessageCapFromPremium(est) ==
    [att |-> i + 1,
     Nonce |-> est.nonce,
     GasLimit |-> est.gasLimit,
     GasFeeCap |-> BigNumber(est.gasPremium),
     GasPremium |-> BigNumber(est.gasPremium)]

(* lines 175-183: the message send hands to wallet.createMessage *)
SendMessage(est) ==
    [att |-> i + 1,
     Nonce |-> est.nonce,
     GasLimit |-> est.gasLimit,
     GasFeeCap |-> BigNumber(est.gasFeeCap),
     GasPremium |-> BigNumber(est.gasPremium)]

(* lines 168-188: the message was built, signed and accepted by the node *)
SendResolves ==
    /\ pc = "cb" /\ kind = "send"
    /\ msgs' = Append(msgs, SendMessage(sendArgs))
    /\ accepted' = accepted \cup {i + 1}
    /\ CbFulfil(JV("string", "cid", 0, i + 1))
    /\ UNCHANGED <<allRpcUrls, kind, defaultResponse, conn, payload, netEst,
                   sendArgs, late, lateSettled, receipts,
                   calcArgs, calcOut>>
    /\ UNCHANGED restVars
    /\ UNCHANGED waitErrs
    /\ UNCHANGED clock

(* lines 189-192: a step of the attempt failed *)
SendRejects ==
    /\ pc = "cb" /\ kind = "send"
    /\ \E what \in SendFailures :
         /\ msgs' = IF what = "newAddress" THEN msgs
                    ELSE Append(msgs, SendMessage(sendArgs))
         /\ accepted' = IF what = "lostReply" THEN accepted \cup {i + 1} ELSE accepted
         /\ CbReject(NetError(what, -1, i + 1))
    /\ UNCHANGED <<allRpcUrls, kind, defaultResponse, conn, payload, netEst,
                   sendArgs, late, lateSettled, receipts,
                   calcArgs, calcOut>>
    /\ UNCHANGED restVars
    /\ UNCHANGED waitErrs
    /\ UNCHANGED clock

(* sleep, were the timer's promise resolved with another word *)
sleepTimeout(att) == JV("string", "timeout", 0, att)

(* line 197: what the timer's promise resolves to *)
sleep(att) == JV("string", "pending", 0, att)

TransactionFailed(att) == JV("error", "Transaction failed", -1, att)

(* awaitTransactionConfirmation, were the test "e.code > 500" *)
awaitTransactionConfirmationAbove500(w, att) ==
    LET e == IF w.ok THEN TransactionFailed(att) ELSE w.val
    IN  IF w.ok /\ w.val.t = "receipt" /\ w.val.code = 0
        THEN [ok |-> TRUE, val |-> w.val]
        ELSE IF e.code > 500
             THEN [ok |-> TRUE, val |-> JV("string", "pending", 0, att)]
             ELSE [ok |-> FALSE, val |-> e]

(* lines 198-215: how awaitTransactionConfirmation settles when waitMsg    *)
(* settled as w = [ok, val]                                                *)
awaitTransactionConfirmation(w, att) ==
    LET e == IF w.ok THEN TransactionFailed(att) ELSE w.val
    IN  IF w.ok /\ w.val.t = "receipt" /\ w.val.code = 0
        THEN [ok |-> TRUE, val |-> w.val]
        ELSE IF e.code >= 500
             THEN [ok |-> TRUE, val |-> JV("string", "pending", 0, att)]
             ELSE [ok |-> FALSE, val |-> e]

(* what lotusClient.state.waitMsg can settle with *)
WaitMsgSettlements(att) ==
    { [ok |-> TRUE, val |-> JV("receipt", "", x, att)] : x \in {0, 1} }
        \cup { [ok |-> TRUE, val |-> JV("null", "", 0, att)] }
        \cup { [ok |-> FALSE, val |-> NetError("waitMsg", c, att)] : c \in ErrorCodes }

(* lines 216-219: Promise.race settles as its first settled member does *)
RaceSettles(o) == IF o.ok THEN CbFulfil(o.val) ELSE CbReject(o.val)

(* AfterRace, were the call's outcome replaced by whichever member settled *)
(* last                                                                    *)
AfterRaceLastWins(o) ==
    /\ result' = [how |-> IF o.ok THEN "returned" ELSE "raised", val |-> o.val]
    /\ UNCHANGED <<pc, i, log, receipts>>

(* a member of a race that has settled settles: the race ignores it *)
AfterRace(o) == UNCHANGED <<result, pc, i, log, receipts>>

(* waitMsg settles before the timer fires *)
WaitMsgSettles ==
    /\ pc = "race"
    /\ \E w \in WaitMsgSettlements(i + 1) :
         /\ RaceSettles(awaitTransactionConfirmation(w, i + 1))
         /\ receipts' = IF w.ok /\ w.val.t = "receipt"
                        THEN receipts \cup {<<i + 1, w.val.code>>}
                        ELSE receipts
         /\ waitErrs' = IF w.ok THEN waitErrs ELSE waitErrs \cup {<<i + 1, w.val.code>>}
    /\ late' = late \cup {<<i + 1, "timer">>}
    /\ UNCHANGED <<allRpcUrls, kind, defaultResponse, conn, payload, netEst,
                   sendArgs, msgs, accepted, lateSettled, calcArgs, calcOut>>
    /\ UNCHANGED restVars
    /\ UNCHANGED clock

(* the timer of interval * retries fires before waitMsg settles *)
TimerFires ==
    /\ pc = "race"
    /\ RaceSettles([ok |-> TRUE, val |-> sleep(i + 1)])
    /\ late' = late \cup {<<i + 1, "waitMsg">>}
    /\ UNCHANGED <<allRpcUrls, kind, defaultResponse, conn, payload, netEst,
                   sendArgs, msgs, accepted, lateSettled, receipts,
                   calcArgs, calcOut>>
    /\ UNCHANGED restVars
    /\ UNCHANGED waitErrs
    /\ UNCHANGED clock

(* the timer of an earlier race fires *)
LateTimerFires ==
    /\ \E b \in late :
         /\ b[2] = "timer"
         /\ late' = late \ {b}
         /\ AfterRace([ok |-> TRUE, val |-> sleep(b[1])])
    /\ lateSettled' = lateSettled + 1
    /\ UNCHANGED <<allRpcUrls, kind, defaultResponse, conn, payload, netEst,
                   sendArgs, msgs, accepted, receipts,
                   calcArgs, calcOut>>
    /\ UNCHANGED restVars
    /\ UNCHANGED waitErrs
    /\ UNCHANGED clock

(* the waitMsg call of an earlier race settles *)
LateWaitMsgSettles ==
    /\ \E b \in late :
         /\ b[2] = "waitMsg"
         /\ late' = late \ {b}
         /\ \E w \in WaitMsgSettlements(b[1]) :
              AfterRace(awaitTransactionConfirmation(w, b[1]))
    /\ lateSettled' = lateSettled + 1
    /\ UNCHANGED <<allRpcUrls, kind, defaultResponse, conn, payload, netEst,
                   sendArgs, msgs, accepted, receipts,
                   calcArgs, calcOut>>
    /\ UNCHANGED restVars
    /\ UNCHANGED waitErrs
    /\ UNCHANGED clock

----------------------------------------------------------------------------
(* TimerDelay, were one more interval waited *)
TimerDelayExtraRetry(interval, retries) == interval * (retries + 1)

(* line 218: sleep(interval * retries) *)
TimerDelay(interval, retries) == interval * retries

(* the current attempt's timer is due *)
Due == clock.waited = TimerDelay(clock.interval, clock.retries)

(* one unit of time passes while a race is undecided; a timer fires when   *)
(* it is due, so time does not pass beyond that                            *)
Tick ==
    /\ pc = "race"
    /\ clock.waited < TimerDelay(clock.interval, clock.retries)
    /\ clock' = [clock EXCEPT !.waited = @ + 1, !.elapsed = @ + 1]
    /\ UNCHANGED <<allRpcUrls, pc, kind, defaultResponse, i, conn, log, result, payload,
                   netEst, sendArgs, msgs, accepted, receipts, late, lateSettled,
                   calcArgs, calcOut, restVars, waitErrs>>

(* the timer fires at its time *)
TimerDue ==
    /\ Due
    /\ TimerFires

----------------------------------------------------------------------------
(* getTransactions (lines 139-158) *)

(* bound: the longest list the history service answers with *)
MaxTx == 2

(* JavaScript values of a record's fields *)
Absent == [ty |-> "undefined"]
NullItem == [ty |-> "null"]
Bool(b) == [ty |-> "boolean", b |-> b]
Num(n) == [ty |-> "number", n |-> n]

(* truthiness of a field value *)
TruthyVal(v) ==
    CASE v.ty = "boolean" -> v.b
      [] v.ty = "number" -> v.n # 0
      [] v.ty = "string" -> v.chars # <<>>
      [] OTHER -> FALSE

(* item?.f *)
Field(item, f) == IF item.ty = "object" THEN item[f] ELSE Absent

(* v?.toString() *)
OptToString(v) ==
    CASE v.ty \in {"undefined", "null"} -> Absent
      [] v.ty = "number" -> Str(IntStr(v.n))
      [] v.ty = "boolean" -> Str(IF v.b THEN <<"t", "r", "u", "e">> ELSE <<"f", "a", "l", "s", "e">>)
      [] OTHER -> v

HashShort == <<"b", "a", "f", "y">>
HashLong == <<"b", "a", "f", "y", "2", "b", "z", "a", "c", "e", "d", "x", "y", "z", "q">>

(* txHash.substring(0, 13) *)
substring13(chars) == SubSeq(chars, 1, Min(13, Len(chars)))

Dots == <<".", ".", ".">>

(* `${config.FILECOIN_SCAN_URL}/message/${txHash}`: the configured base is *)
(* an opaque first element                                                 *)
MessageUrl(chars) ==
    <<"FILECOIN_SCAN_URL">> \o <<"/", "m", "e", "s", "s", "a", "g", "e", "/">> \o chars

(* statusOf, were the test the truthiness of item.status *)
statusOfTruthy(v) == IF TruthyVal(v) THEN "SUCCESS" ELSE "FAILED"

(* line 148: item?.status === true ? 'SUCCESS' : 'FAILED' *)
statusOf(v) == IF v = Bool(TRUE) THEN "SUCCESS" ELSE "FAILED"

(* lines 143-151: the entry made of one record *)
reshape(item) ==
    LET h == Field(item, "txHash")
        txHash == IF TruthyVal(h) THEN h.chars ELSE <<>>
        ts == Field(item, "timestamp")
    IN  [amount |-> OptToString(Field(item, "amount")),
         link |-> IF txHash # <<>> THEN substring13(txHash) \o Dots ELSE <<>>,
         url |-> MessageUrl(txHash),
         status |-> statusOf(Field(item, "status")),
         date |-> IF TruthyVal(ts) THEN [of |-> ts.n] ELSE [now |-> TRUE],
         from |-> Field(item, "from"),
         to |-> Field(item, "to")]

(* lines 140-157: the call when FilScan.getTransactions settled as t; map  *)
(* of a value that is no array throws, which the catch turns into []       *)
getTransactions(t) ==
    IF t.ok /\ t.val.ty = "array"
    THEN [how |-> "returned",
          val |-> [k \in 1..Len(t.val.items) |-> reshape(t.val.items[k])]]
    ELSE [how |-> "returned", val |-> <<>>]

(* records of the history service *)
TxItem(h, st, at) ==
    [ty |-> "object", txHash |-> h, status |-> st, amount |-> at[1], timestamp |-> at[2],
     from |-> Str(<<"f", "1", "a">>), to |-> Str(<<"f", "1", "b">>)]

TxItems ==
    { TxItem(h, st, at) :
        h \in {Absent, Str(HashShort), Str(HashLong)},
        st \in {Absent, Bool(TRUE), Bool(FALSE), Str(<<"t", "r", "u", "e">>)},
        at \in {<<Absent, Absent>>, <<Num(125), Num(1700000000)>>} }
        \cup {NullItem}

TxLists == UNION { [1..n -> TxItems] : n \in 0..MaxTx }

(* how FilScan.getTransactions can settle *)
TxSettlements ==
    { [ok |-> TRUE, val |-> [ty |-> "array", items |-> l]] : l \in TxLists }
        \cup { [ok |-> TRUE, val |-> NullItem] }
        \cup { [ok |-> FALSE, val |-> NetError("filscan", c, 0)] : c \in ErrorCodes }

(* no second call is running *)
NoCall == [pc |-> "idle", i |-> 0, tried |-> <<>>, how |-> "none"]

NoSync == txArg = None /\ txOut = None /\ keyArg = None /\ keyOut = None

(* line 139: one call of getTransactions *)
GetTransactions ==
    /\ txArg # None
    /\ txOut = None
    /\ txOut' = getTransactions(txArg)
    /\ UNCHANGED <<allRpcUrls, pc, kind, defaultResponse, i, conn, log, result, payload,
                   netEst, sendArgs, msgs, accepted, receipts, late, lateSettled,
                   calcArgs, calcOut, txArg, keyArg, keyOut, other>>
    /\ UNCHANGED waitErrs
    /\ UNCHANGED clock

----------------------------------------------------------------------------
(* A second call of retryFunc that runs while the first does.  Each call   *)
(* has its own loop index (line 24) and shares only allRpcUrls.            *)

(* the running call and all that belongs to it *)
callVars == <<pc, kind, defaultResponse, i, conn, log, result, payload, netEst,
              sendArgs, msgs, accepted, receipts, late, lateSettled, calcArgs, calcOut,
              waitErrs, clock>>

OtherUnchanged == UNCHANGED <<allRpcUrls, callVars, txArg, txOut, keyArg, keyOut>>

(* line 23: the second call is made *)
OtherCalls ==
    /\ other.pc \in {"idle", "done"}
    /\ other' = [pc |-> "loop", i |-> 0, tried |-> <<>>, how |-> "none"]
    /\ OtherUnchanged

(* line 24: its loop ends *)
OtherLoopExit ==
    /\ other.pc = "loop"
    /\ ~(other.i < Len(allRpcUrls))
    /\ other' = [other EXCEPT !.pc = "done", !.how = "returned"]
    /\ OtherUnchanged

(* lines 26-29: its attempt on allRpcUrls[i] starts *)
OtherConnect ==
    /\ other.pc = "loop"
    /\ other.i < Len(allRpcUrls)
    /\ other' = [other EXCEPT !.pc = "cb", !.tried = Append(@, allRpcUrls[other.i + 1])]
    /\ OtherUnchanged

(* line 29: its attempt fulfils *)
OtherFulfils ==
    /\ other.pc = "cb"
    /\ other' = [other EXCEPT !.pc = "done", !.how = "returned"]
    /\ OtherUnchanged

(* lines 30-39: its attempt rejects; it was given no fallback *)
OtherRejects ==
    /\ other.pc = "cb"
    /\ other' = IF IsLastEndpoint(other.i)
                THEN [other EXCEPT !.pc = "done", !.how = "raised"]
                ELSE [other EXCEPT !.pc = "loop", !.i = @ + 1]
    /\ OtherUnchanged

----------------------------------------------------------------------------
(* isValidAddress, isValidPrivateKey, createWalletByPrivateKey (62-95) *)

(* argument strings of the three operations *)
KeyStrings == {<<>>, <<"x">>, <<"f", "1", "a">>, <<"t", "1", "b">>}

LibError(what) == NetError(what, -1, 0)

(* how validateAddressString(address) can end *)
ValidateOutcomes ==
    { [ok |-> TRUE, val |-> Bool(b)] : b \in BOOLEAN }
        \cup { [ok |-> FALSE, val |-> LibError("validateAddressString")] }

(* how keyPairFromPrivateKey(privateKey, prefix) can end: thrown, nothing, *)
(* a key pair without address, with an empty one, with an address          *)
KeyPairOutcomes ==
    { [ok |-> FALSE, val |-> LibError("keyPairFromPrivateKey")],
      [ok |-> TRUE, val |-> Absent],
      [ok |-> TRUE, val |-> [ty |-> "object", address |-> Absent]],
      [ok |-> TRUE, val |-> [ty |-> "object", address |-> Str(<<>>)]],
      [ok |-> TRUE, val |-> [ty |-> "object", address |-> Str(<<"f", "1", "a">>)]] }

(* lines 62-69 *)
isValidAddress(o) ==
    IF o.ok THEN [how |-> "returned", val |-> o.val]
    ELSE [how |-> "returned", val |-> Bool(FALSE)]

(* lines 81-95 *)
createWalletByPrivateKey(privateKey, kp) ==
    IF kp.ok
    THEN [how |-> "returned",
          val |-> [ty |-> "object",
                   address |-> OptToString(Field(kp.val, "address")),
                   privateKey |-> Str(privateKey)]]
    ELSE [how |-> "returned", val |-> NullItem]

(* isValidPrivateKey, were the test "!!generatedKeypair" *)
isValidPrivateKeyAnyWallet(settled) ==
    IF settled.how = "returned"
    THEN [how |-> "returned", val |-> Bool(settled.val.ty = "object")]
    ELSE [how |-> "returned", val |-> Bool(FALSE)]

(* lines 75-79: the await of line 72 settled *)
isValidPrivateKey(settled) ==
    IF settled.how = "returned"
    THEN [how |-> "returned", val |-> Bool(TruthyVal(Field(settled.val, "address")))]
    ELSE [how |-> "returned", val |-> Bool(FALSE)]

(* the calls one of the three operations can be *)
KeyCalls ==
    { [op |-> "isValidAddress", arg |-> a, lib |-> o, factory |-> TRUE] :
        a \in KeyStrings, o \in ValidateOutcomes }
        \cup { [op |-> "createWalletByPrivateKey", arg |-> a, lib |-> o, factory |-> TRUE] :
                 a \in KeyStrings, o \in KeyPairOutcomes }
        \cup { [op |-> "isValidPrivateKey", arg |-> a, lib |-> o, factory |-> f] :
                 a \in KeyStrings, o \in KeyPairOutcomes, f \in BOOLEAN }

KeyUnchanged ==
    UNCHANGED <<allRpcUrls, pc, kind, defaultResponse, i, conn, log, result, payload,
                netEst, sendArgs, msgs, accepted, receipts, late, lateSettled,
                calcArgs, calcOut, txArg, txOut, keyArg, other, waitErrs, clock>>

(* line 62 *)
IsValidAddress ==
    /\ keyArg # None /\ keyOut = None
    /\ keyArg.op = "isValidAddress"
    /\ keyOut' = isValidAddress(keyArg.lib)
    /\ KeyUnchanged

(* line 81 *)
CreateWalletByPrivateKey ==
    /\ keyArg # None /\ keyOut = None
    /\ keyArg.op = "createWalletByPrivateKey"
    /\ keyOut' = createWalletByPrivateKey(keyArg.arg, keyArg.lib)
    /\ KeyUnchanged

(* lines 72-74: a new adapter is made and its createWalletByPrivateKey is  *)
(* called; making the adapter (getFreeRPCUrl) may throw                    *)
IsValidPrivateKeyCalls ==
    /\ keyArg # None /\ keyOut = None
    /\ keyArg.op = "isValidPrivateKey"
    /\ keyOut' = [how |-> "awaiting",
                  settled |-> IF keyArg.factory
                              THEN createWalletByPrivateKey(keyArg.arg, keyArg.lib)
                              ELSE [how |-> "raised", val |-> LibError("getFreeRPCUrl")]]
    /\ KeyUnchanged

(* lines 75-79 *)
IsValidPrivateKeyReturns ==
    /\ keyArg # None /\ keyOut # None
    /\ keyOut.how = "awaiting"
    /\ keyOut' = isValidPrivateKey(keyOut.settled)
    /\ KeyUnchanged

TypeOK ==
    /\ allRpcUrls \in Pools
    /\ pc \in {"idle", "loop", "cb", "race", "done"}
    /\ kind \in {"none", "getBalance", "getEstimateFee", "send", "waitForConfirmation"}
    /\ i \in 0..Len(allRpcUrls)
    /\ result.how \in {"none", "returned", "raised"}

Idle ==
    /\ pc = "idle"
    /\ kind = "none"
    /\ defaultResponse = Undefined
    /\ i = 0
    /\ conn = ""
    /\ log = <<>>
    /\ result = NoResult
    /\ payload = None
    /\ netEst = None
    /\ sendArgs = None
    /\ msgs = <<>>
    /\ accepted = {}
    /\ receipts = {}
    /\ waitErrs = {}
    /\ clock = NoClock
    /\ late = {}
    /\ lateSettled = 0

(* the adapter after FilecoinChain(chain_name) (lines 20-21) *)
Init ==
    /\ allRpcUrls \in Pools
    /\ Idle
    /\ calcArgs = None
    /\ calcOut = None
    /\ NoSync
    /\ other = NoCall

Next ==
    \/ CallGetBalance
    \/ CallGetEstimateFee
    \/ CallSend
    \/ CallWaitForConfirmation
    \/ LoopExit
    \/ Connect
    \/ ConnectThrows
    \/ BalanceResolves
    \/ BalanceRejects
    \/ EstimateResolves
    \/ EstimateRejects
    \/ SendResolves
    \/ SendRejects
    \/ WaitMsgSettles
    \/ TimerFires
    \/ LateTimerFires
    \/ LateWaitMsgSettles

Spec == Init /\ [][Next]_vars

(* The event loop runs a timer that is due, and retryFunc's own steps      *)
(* (the loop test, building the connection) are not suspended.  Nothing    *)
(* makes a node answer.                                                    *)
SpecLive ==
    /\ Init /\ [][Next]_vars
    /\ WF_vars(TimerFires)
    /\ WF_vars(LoopExit)
    /\ WF_vars(Connect \/ ConnectThrows)

(* two calls at the same time; the members of decided races are left out  *)
NextOverlap ==
    \/ CallGetBalance
    \/ CallGetEstimateFee
    \/ CallSend
    \/ CallWaitForConfirmation
    \/ LoopExit
    \/ Connect
    \/ ConnectThrows
    \/ BalanceResolves
    \/ BalanceRejects
    \/ EstimateResolves
    \/ EstimateRejects
    \/ SendResolves
    \/ SendRejects
    \/ WaitMsgSettles
    \/ TimerFires
    \/ OtherCalls
    \/ OtherLoopExit
    \/ OtherConnect
    \/ OtherFulfils
    \/ OtherRejects

SpecOverlap == Init /\ [][NextOverlap]_vars

(* waitForConfirmation with time: the timers fire when they are due; the   *)
(* members of decided races are left out, they change nothing of the call  *)
NextTimed ==
    \/ CallWaitForConfirmation
    \/ LoopExit
    \/ Connect
    \/ ConnectThrows
    \/ WaitMsgSettles
    \/ Tick
    \/ TimerDue

SpecTimed == Init /\ [][NextTimed]_vars

----------------------------------------------------------------------------
(* calculateFilecoinGasFee as a function of its four arguments. *)
E15Str == <<"1">> \o [j \in 1..15 |-> "0"]

GasUsedInputs == { IntStr(n) : n \in -1..MaxGas } \cup { IntStr(1000000) }
GasLimitInputs == { IntStr(n) : n \in -1..MaxGas } \cup { IntStr(2000000) }
BaseFeeInputs == { IntStr(n) : n \in {-1, 0, 1, 100} } \cup { E15Str }
GasPremiumInputs == { IntStr(n) : n \in {-1, 0, 10} }

InitFee ==
    /\ allRpcUrls = SubSeq(RpcUrlNames, 1, 1)
    /\ Idle
    /\ calcArgs \in GasUsedInputs \X GasLimitInputs \X BaseFeeInputs \X GasPremiumInputs
    /\ calcOut = None
    /\ NoSync
    /\ other = NoCall

Calc ==
    /\ calcArgs # None
    /\ calcOut = None
    /\ calcOut' = CallCalc(calcArgs)
    /\ UNCHANGED <<allRpcUrls, pc, kind, defaultResponse, i, conn, log, result, payload,
                   netEst, sendArgs, msgs, accepted, late, lateSettled, receipts, calcArgs>>
    /\ UNCHANGED restVars
    /\ UNCHANGED waitErrs
    /\ UNCHANGED clock

NextFee == Calc

SpecFee == InitFee /\ [][NextFee]_vars

----------------------------------------------------------------------------
(* getTransactions as a function of what the history service does. *)
InitTx ==
    /\ allRpcUrls = SubSeq(RpcUrlNames, 1, 1)
    /\ Idle
    /\ calcArgs = None
    /\ calcOut = None
    /\ txArg \in TxSettlements
    /\ txOut = None
    /\ keyArg = None
    /\ keyOut = None
    /\ other = NoCall

NextTx == GetTransactions

SpecTx == InitTx /\ [][NextTx]_vars

----------------------------------------------------------------------------
(* The validation operations as functions of what the libraries do. *)
InitKey ==
    /\ allRpcUrls = SubSeq(RpcUrlNames, 1, 1)
    /\ Idle
    /\ calcArgs = None
    /\ calcOut = None
    /\ txArg = None
    /\ txOut = None
    /\ keyArg \in KeyCalls
    /\ keyOut = None
    /\ other = NoCall

NextKey ==
    \/ IsValidAddress
    \/ CreateWalletByPrivateKey
    \/ IsValidPrivateKeyCalls
    \/ IsValidPrivateKeyReturns

SpecKey == InitKey /\ [][NextKey]_vars

----------------------------------------------------------------------------
(* Properties *)

(* every endpoint of a pool that has one was tried and failed *)
AllFailed ==
    /\ Len(allRpcUrls) >= 1
    /\ Len(log) = Len(allRpcUrls)
    /\ \A k \in 1..Len(log) : ~log[k].ok

LastFailure == log[Len(log)].val

(* C1: when the operation fails on endpoints 1..N-1 and succeeds on        *)
(* endpoint N, the call has returned exactly the value endpoint N's        *)
(* attempt produced, and no attempt follows the Nth.                       *)
C1_FirstSuccessReturns ==
    \A n \in 1..Len(log) :
        (log[n].ok /\ \A j \in 1..(n - 1) : ~log[j].ok)
            => /\ pc = "done"
               /\ result = [how |-> "returned", val |-> log[n].val]
               /\ log[n].val.from = n
               /\ log[n].idx = n
               /\ Len(log) = n

C1_Witness ==
    /\ pc = "done"
    /\ Len(log) = 2
    /\ Len(allRpcUrls) = 3
    /\ ~log[1].ok
    /\ log[2].ok
    /\ result.val = log[2].val

(* C2 as stated: when every endpoint failed, a call that was given a       *)
(* fallback value, whatever it is, returned it, and a call given none      *)
(* raised the last endpoint's failure.                                     *)
C2_AnyFallbackReturned ==
    (pc = "done" /\ AllFailed)
        => IF defaultResponse # Undefined
           THEN result = [how |-> "returned", val |-> defaultResponse]
           ELSE result = [how |-> "raised", val |-> LastFailure]

(* C2 amended: when every endpoint failed, a call given a truthy fallback  *)
(* (the non-empty string '0' of getBalance) returned exactly it and raised *)
(* nothing; a call given null or no fallback raised the failure of the     *)
(* last endpoint.                                                          *)
C2_TruthyFallbackReturned ==
    (pc = "done" /\ AllFailed)
        => /\ (defaultResponse.t = "string" /\ defaultResponse.s # "")
                => result = [how |-> "returned", val |-> defaultResponse]
           /\ defaultResponse.t \in {"null", "undefined"}
                => /\ result = [how |-> "raised", val |-> LastFailure]
                   /\ LastFailure.from = Len(allRpcUrls)

C2_Witness ==
    /\ pc = "done"
    /\ AllFailed
    /\ Len(log) >= 2
    /\ defaultResponse = Null
    /\ result = [how |-> "raised", val |-> LastFailure]
    /\ log[1].val # LastFailure

(* C3: a finished getBalance call has returned, not raised: the balance    *)
(* string of the first endpoint that succeeded or, when every endpoint     *)
(* failed, the default '0'.                                                *)
C3_GetBalanceReturnsBalanceOrZero ==
    (kind = "getBalance" /\ pc = "done")
        => /\ result.how = "returned"
           /\ \/ /\ log # <<>>
                 /\ log[Len(log)].ok
                 /\ result.val = log[Len(log)].val
                 /\ result.val.t = "string"
              \/ /\ \A k \in 1..Len(log) : ~log[k].ok
                 /\ Len(log) = Len(allRpcUrls)
                 /\ result.val = StrDefault("0")

(* C4: a finished getEstimateFee or send call whose work failed on every   *)
(* endpoint has raised the last endpoint's failure; it has returned a      *)
(* value only if the attempt of some endpoint succeeded, and then that     *)
(* attempt's value, never the fallback.                                    *)
C4_EstimateAndSendRaise ==
    (kind \in {"getEstimateFee", "send"} /\ pc = "done")
        => /\ AllFailed => /\ result = [how |-> "raised", val |-> LastFailure]
                           /\ LastFailure.from = Len(allRpcUrls)
           /\ (result.how = "returned" /\ result.val # Undefined)
                => /\ log # <<>>
                   /\ log[Len(log)].ok
                   /\ result.val = log[Len(log)].val
                   /\ result.val.t \in {"feeResult", "string"}
                   /\ result.val.from = Len(log)

C4_Witness ==
    /\ kind = "send"
    /\ pc = "done"
    /\ AllFailed
    /\ Len(log) >= 2
    /\ result = [how |-> "raised", val |-> LastFailure]

(* The fee estimator's arguments and result as numbers. *)
FeeCalled == calcArgs # None /\ calcOut # None

ArgGasUsed == BigNumber(calcArgs[1])
ArgGasLimit == BigNumber(calcArgs[2])
ArgBaseFee == BigNumber(calcArgs[3])
ArgGasPremium == BigNumber(calcArgs[4])

IsNegative(x) == x.k # "nan" /\ x.neg /\ ~BNIsZero(x)

IsNonNegInt(x) == x.k = "num" /\ x.dp = 0 /\ ~IsNegative(x)

(* non-negative integer arguments with gasUsed > 0 *)
ValidFeeInput ==
    /\ FeeCalled
    /\ \A k \in 1..4 : IsNonNegInt(BigNumber(calcArgs[k]))
    /\ ~BNIsZero(ArgGasUsed)

(* C5: for gasUsed = 0 and for any negative argument the estimator ends    *)
(* by raising InvalidInput and returns no string.                          *)
C5_InvalidInputRaises ==
    (FeeCalled /\ (BNIsZero(ArgGasUsed) \/ \E k \in 1..4 : IsNegative(BigNumber(calcArgs[k]))))
        => calcOut.how = "raised"

(* gasUsed*baseFee + gasLimit*gasPremium *)
FeeBase == plus(times(ArgGasUsed, ArgBaseFee), times(ArgGasLimit, ArgGasPremium))

(* 10 * (gasLimit - 1.1*gasUsed) *)
TenOver == minus(times(BNInt(10), ArgGasLimit), times(BNInt(11), ArgGasUsed))

InBand == ~gt(TenOver, BNInt(0))

TenGasUsed == times(BNInt(10), ArgGasUsed)

(* 10*gasUsed times the fee of the formula, an integer *)
TenGasUsedFee ==
    plus(times(TenGasUsed, FeeBase),
         IF InBand THEN BNInt(0)
         ELSE times(times(TenOver, minus(ArgGasLimit, ArgGasUsed)), ArgBaseFee))

FeeValue == BigNumber(calcOut.str)

IsPlainDecimal(str) ==
    /\ \A k \in 1..Len(str) : IsDigit(str[k]) \/ str[k] = "."
    /\ Cardinality({k \in 1..Len(str) : str[k] = "."}) <= 1

BNAbs(x) == [x EXCEPT !.neg = FALSE]

E20 == BN("num", FALSE, Zeros(20) \o <<1>>, 0)

(* C6 as stated: for non-negative integer arguments with gasUsed > 0 the   *)
(* result is the decimal string of the formula's exact value.              *)
C6_ExactDecimalString ==
    ValidFeeInput
        => /\ calcOut.how = "returned"
           /\ IsPlainDecimal(calcOut.str)
           /\ BNEq(times(FeeValue, TenGasUsed), TenGasUsedFee)

(* C6 amended: for non-negative integer arguments with gasUsed > 0 the     *)
(* result is the string of gasUsed*baseFee + gasLimit*gasPremium +         *)
(* burn*baseFee where burn is 0 inside the band and otherwise the quotient *)
(* (gasLimit - 1.1*gasUsed)*(gasLimit - gasUsed)/gasUsed rounded to the    *)
(* nearest multiple of 10^-20; the string is plain decimal below 10^21 and *)
(* in exponential notation from 10^21; the example gives "210000000".      *)
C6_RoundedFeeString ==
    ValidFeeInput
        => /\ calcOut.how = "returned"
           /\ FeeValue.k = "num"
           /\ InBand => BNEq(FeeValue, FeeBase)
           /\ ~InBand =>
                LET burnFee == minus(FeeValue, FeeBase)
                    scaled == times(burnFee, E20)
                    err == BNAbs(minus(times(FeeValue, TenGasUsed), TenGasUsedFee))
                IN  /\ ~IsNegative(burnFee)
                    /\ scaled.dp = 0
                    /\ BNIsZero(ArgBaseFee)
                         \/ NatDivMod(scaled.m, ArgBaseFee.m).r = <<>>
                    /\ ~gt(times(times(err, BNInt(2)), E20),
                           times(TenGasUsed, ArgBaseFee))
           /\ IF gt(E21, FeeValue)
              THEN IsPlainDecimal(calcOut.str)
              ELSE /\ IndexOf(calcOut.str, "e") > 0
                   /\ IndexOf(calcOut.str, "+") = IndexOf(calcOut.str, "e") + 1
                   /\ IsPlainDecimal(SubSeq(calcOut.str, 1, IndexOf(calcOut.str, "e") - 1))
           /\ calcArgs = <<IntStr(1000000), IntStr(2000000), IntStr(100), IntStr(10)>>
                => calcOut.str = IntStr(210000000)

C6_Witness ==
    /\ ValidFeeInput
    /\ ~InBand
    /\ ~BNIsZero(ArgBaseFee)
    /\ ~BNEq(times(FeeValue, TenGasUsed), TenGasUsedFee)

(* the value a race's timer gives *)
IsPending(v) == v.t = "string" /\ v.s = "pending"

(* C7: a waitForConfirmation call in which an inclusion check reported a   *)
(* non-zero exit code ends by raising an error; it returns neither         *)
(* 'pending' nor a receipt.                                                *)
C7_NonZeroExitRaises ==
    (kind = "waitForConfirmation" /\ pc = "done" /\ \E r \in receipts : r[2] # 0)
        => result.how = "raised"

(* C8: in waitForConfirmation a receipt with exit code 0 that arrives      *)
(* before the timer fires is what the call returns, and once a race is     *)
(* decided the settling of its other member changes neither the call's     *)
(* position nor its outcome: nothing is raised, nothing is replaced.       *)
C8_FirstSettledDecides ==
    /\ [](\A n \in 1..Len(log) :
            (kind = "waitForConfirmation" /\ <<n, 0>> \in receipts)
                => /\ pc = "done"
                   /\ Len(log) = n
                   /\ result = [how |-> "returned", val |-> JV("receipt", "", 0, n)])
    /\ [][(kind = "waitForConfirmation" /\ lateSettled' > lateSettled)
            => (result' = result /\ pc' = pc /\ log' = log /\ i' = i)]_vars

C8_Witness ==
    /\ kind = "waitForConfirmation"
    /\ pc = "done"
    /\ result.how = "returned"
    /\ result.val.t = "receipt"
    /\ lateSettled > 0
    /\ late = {}

(* C9: when the timer fires in a race whose inclusion check has not        *)
(* settled, the call returns 'pending' and raises nothing; and every       *)
(* waitForConfirmation call on a non-empty pool settles, also when no      *)
(* inclusion check ever settles.                                           *)
C9_TimeoutReturnsPending ==
    /\ [][(pc = "race" /\ <<i + 1, "waitMsg">> \in late')
            => (pc' = "done" /\ result'.how = "returned" /\ IsPending(result'.val))]_vars
    /\ (kind = "waitForConfirmation" /\ pc \in {"loop", "race"} /\ Len(allRpcUrls) >= 1)
           ~> (kind = "waitForConfirmation" /\ pc = "done")

C9_Witness ==
    /\ kind = "waitForConfirmation"
    /\ pc = "done"
    /\ Len(allRpcUrls) >= 1
    /\ result.how = "returned"
    /\ IsPending(result.val)
    /\ receipts = {}
    /\ <<Len(log), "waitMsg">> \in late

(* C10: every message a send call builds from the estimateGas of the       *)
(* preceding getEstimateFee carries the nonce and GasLimit the network     *)
(* gave in the estimate, and a GasFeeCap and GasPremium numerically equal  *)
(* to the network's.                                                       *)
C10_GasBundleRoundTrip ==
    (kind = "send" /\ payload # None /\ sendArgs = payload.estimateGas)
        => \A k \in 1..Len(msgs) :
              /\ msgs[k].Nonce = netEst.nonce
              /\ msgs[k].GasLimit = netEst.GasLimit
              /\ BNEq(msgs[k].GasFeeCap, NumOf(netEst.GasFeeCap))
              /\ BNEq(msgs[k].GasPremium, NumOf(netEst.GasPremium))

C10_Witness ==
    /\ kind = "send"
    /\ payload # None
    /\ sendArgs = payload.estimateGas
    /\ Len(msgs) >= 2
    /\ netEst.GasFeeCap.ty = "BigNumber"
    /\ IndexOf(sendArgs.gasFeeCap, "e") > 0
    /\ IndexOf(sendArgs.gasFeeCap, ".") > 0

(* the list the history service gave in the getTransactions call *)
TxGiven == IF txArg.ok /\ txArg.val.ty = "array" THEN txArg.val.items ELSE <<>>

HashOf(item) ==
    IF Field(item, "txHash").ty = "string" THEN Field(item, "txHash").chars ELSE <<>>

(* C11: a getTransactions call never raises; when the history service      *)
(* fails it returns the empty list; otherwise it returns one entry per     *)
(* record, in the records' order: a missing hash gives an empty link and   *)
(* the URL of the empty hash, and the status is 'SUCCESS' exactly when the *)
(* record's status is the boolean true, 'FAILED' otherwise.                *)
C11_GetTransactionsTotal ==
    (txArg # None /\ txOut # None)
        => /\ txOut.how = "returned"
           /\ ~txArg.ok => txOut.val = <<>>
           /\ Len(txOut.val) = Len(TxGiven)
           /\ \A k \in 1..Len(TxGiven) :
                LET item == TxGiven[k]
                    e == txOut.val[k]
                IN  /\ e.url = MessageUrl(HashOf(item))
                    /\ HashOf(item) = <<>> => e.link = <<>>
                    /\ HashOf(item) # <<>>
                         => e.link = SubSeq(HashOf(item), 1, Min(13, Len(HashOf(item)))) \o Dots
                    /\ e.status \in {"SUCCESS", "FAILED"}
                    /\ e.status = "SUCCESS" <=> Field(item, "status") = Bool(TRUE)
                    /\ e.from = Field(item, "from")
                    /\ e.to = Field(item, "to")

C11_Witness ==
    /\ txArg # None /\ txOut # None
    /\ Len(TxGiven) = 2
    /\ HashOf(TxGiven[1]) = <<>>
    /\ Field(TxGiven[1], "status") = Str(<<"t", "r", "u", "e">>)
    /\ txOut.val[1].status = "FAILED"
    /\ txOut.val[1].link = <<>>
    /\ HashOf(TxGiven[2]) = HashLong
    /\ Len(txOut.val[2].link) = 16
    /\ txOut.val[2].status = "SUCCESS"

(* the validation call has returned *)
KeyDone(op) == keyArg # None /\ keyArg.op = op /\ keyOut # None /\ keyOut.how # "awaiting"

(* the key derivation of the call produced a non-empty address *)
DerivedAddress ==
    /\ keyArg.factory
    /\ keyArg.lib.ok
    /\ keyArg.lib.val.ty = "object"
    /\ keyArg.lib.val.address.ty = "string"
    /\ keyArg.lib.val.address.chars # <<>>

(* C12: isValidAddress and isValidPrivateKey end by returning a boolean,   *)
(* never by raising; isValidAddress returns false when the validation      *)
(* throws and the validation's answer otherwise; isValidPrivateKey returns *)
(* true exactly when the key derivation produced a non-empty address, so   *)
(* false when it throws or derives none.                                   *)
C12_ValidatorsReturnBoolean ==
    /\ KeyDone("isValidAddress")
         => /\ keyOut.how = "returned"
            /\ keyOut.val = IF keyArg.lib.ok THEN keyArg.lib.val ELSE Bool(FALSE)
    /\ KeyDone("isValidPrivateKey")
         => /\ keyOut.how = "returned"
            /\ keyOut.val = Bool(DerivedAddress)

C12_Witness ==
    /\ KeyDone("isValidPrivateKey")
    /\ keyArg.lib.ok
    /\ keyArg.lib.val.ty = "object"
    /\ keyArg.lib.val.address = Absent
    /\ keyOut.val = Bool(FALSE)

(* attempt k of the running call ended with waitMsg failing with an error  *)
(* that is not transient: no code (-1 in the model) or a code below 500    *)
FatalWaitError(k) ==
    /\ ~log[k].ok
    /\ log[k].val.s = "waitMsg"
    /\ log[k].val.code < 500

(* C13 as stated: a waitForConfirmation call in which the inclusion check of some    *)
(* endpoint failed with an error without code or with a code below 500     *)
(* ends by raising; it returns neither 'pending' nor a receipt.            *)
C13_FatalErrorRaises ==
    (kind = "waitForConfirmation" /\ pc = "done" /\ \E k \in 1..Len(log) : FatalWaitError(k))
        => result.how = "raised"

(* C13 amended: an inclusion check that fails with such an error makes     *)
(* its endpoint's attempt fail.  On the last endpoint of the pool the call *)
(* ends by raising exactly that error; on an earlier endpoint the call     *)
(* does not end there: the next endpoint is tried and decides.             *)
C13_FatalErrorFailsOver ==
    kind = "waitForConfirmation"
        => \A k \in 1..Len(log) :
              FatalWaitError(k)
                  => IF k = Len(allRpcUrls)
                     THEN /\ pc = "done"
                          /\ result = [how |-> "raised", val |-> log[k].val]
                     ELSE /\ i >= k
                          /\ ~(pc = "done" /\ Len(log) = k)

C13_Witness ==
    /\ kind = "waitForConfirmation"
    /\ pc = "done"
    /\ Len(allRpcUrls) = 2
    /\ Len(log) = 2
    /\ FatalWaitError(1)
    /\ log[1].val.code = 404
    /\ result.how = "returned"
    /\ IsPending(result.val)

(* C14: in waitForConfirmation an inclusion check that fails with a code   *)
(* of 500 or more before the timer fires makes the call return 'pending':  *)
(* nothing is raised, and the attempt in which it happened is the call's   *)
(* last, so no further endpoint is contacted.                              *)
C14_TransientErrorReturnsPending ==
    kind = "waitForConfirmation"
        => \A e \in waitErrs :
              e[2] >= 500
                  => /\ pc = "done"
                     /\ result = [how |-> "returned", val |-> JV("string", "pending", 0, e[1])]
                     /\ Len(log) = e[1]
                     /\ i = e[1] - 1
                     /\ conn = allRpcUrls[e[1]]

C14_Witness ==
    /\ kind = "waitForConfirmation"
    /\ Len(allRpcUrls) = 3
    /\ <<2, 500>> \in waitErrs
    /\ <<2, "timer">> \in late
    /\ pc = "done"
    /\ Len(log) = 2
    /\ IsPending(result.val)

(* interval * retries of the running call *)
Delay == clock.interval * clock.retries

(* C15 as stated: a waitForConfirmation call that has not settled was made *)
(* at most interval * retries ago, and one that has settled took at most   *)
(* that long.                                                              *)
C15_SettlesWithinOneTimeout ==
    kind = "waitForConfirmation" => clock.elapsed <= Delay

(* C15 amended: each attempt waits at most interval * retries, counted     *)
(* from the attempt's start, so a call in its kth attempt was made at most *)
(* k * interval * retries ago and a call takes at most                     *)
(* |pool| * interval * retries.                                            *)
C15_SettlesWithinPoolTimeouts ==
    kind = "waitForConfirmation"
        => /\ clock.waited <= Delay
           /\ clock.elapsed <= i * Delay + clock.waited
           /\ clock.elapsed <= Len(allRpcUrls) * Delay
           /\ pc = "done" => clock.elapsed <= Len(log) * Delay

C15_Witness ==
    /\ kind = "waitForConfirmation"
    /\ pc = "done"
    /\ Len(allRpcUrls) = 2
    /\ Delay = 2
    /\ clock.elapsed = 2 * Delay
    /\ IsPending(result.val)

(* an attempt of the running call is under way *)
Attempting == pc \in {"cb", "race"}

(* C16: within a call the attempts are made one at a time in pool order:   *)
(* the kth attempt is on the kth endpoint, an attempt starts only when all *)
(* attempts before it have settled with a failure, there are at most       *)
(* |pool| attempts, and an inclusion check still in flight belongs to the  *)
(* call's last attempt, after which the call has ended.                    *)
C16_SequentialInPoolOrder ==
    /\ [](/\ Len(log) <= Len(allRpcUrls)
          /\ \A k \in 1..Len(log) :
                /\ log[k].idx = k
                /\ log[k].invoked => log[k].url = allRpcUrls[k]
                /\ k < Len(log) => ~log[k].ok
          /\ Attempting
                => /\ i = Len(log)
                   /\ i < Len(allRpcUrls)
                   /\ conn = allRpcUrls[i + 1]
                   /\ \A k \in 1..Len(log) : ~log[k].ok
          /\ \A b \in late : b[2] = "waitMsg" => (pc = "done" /\ b[1] = Len(log)))
    /\ [][/\ Len(log') \in {Len(log), Len(log) + 1, 0}
          /\ (Attempting' /\ ~Attempting)
                => (pc = "loop" /\ Len(log') = Len(log) /\ i' = i)
          /\ Len(log') = Len(log) + 1 => Attempting \/ pc = "loop"]_vars

C16_Witness ==
    /\ Attempting
    /\ kind = "send"
    /\ Len(allRpcUrls) = 3
    /\ Len(log) = 2
    /\ conn = allRpcUrls[3]
    /\ log[1].invoked /\ ~log[2].invoked

(* C17: one send call causes at most one accepted submission: once a node  *)
(* has accepted the signed message, no later endpoint is given it.         *)
C17_AtMostOneAcceptedSubmission ==
    kind = "send" => Cardinality(accepted) <= 1

(* C18: the operation of an attempt is invoked with the connection stack   *)
(* built in that attempt for that attempt's endpoint: a call starts with   *)
(* no connection, the step that invokes the operation is the one that      *)
(* builds the connection for allRpcUrls[i], and a failure to build it is a *)
(* failed attempt in which the operation is not invoked and after which    *)
(* the next endpoint is tried (or, on the last endpoint, the call ends).   *)
C18_FreshConnectionPerAttempt ==
    /\ [](/\ Attempting => conn = allRpcUrls[i + 1]
          /\ \A k \in 1..Len(log) : log[k].invoked => log[k].url = allRpcUrls[k])
    /\ [][/\ (Attempting' /\ ~Attempting)
                => (conn' = allRpcUrls[i + 1] /\ i' = i)
          /\ (pc' = "loop" /\ pc \in {"idle", "done"}) => conn' = ""
          /\ (Len(log') = Len(log) + 1 /\ ~log'[Len(log')].invoked)
                => /\ pc = "loop"
                   /\ ~log'[Len(log')].ok
                   /\ IF i = Len(allRpcUrls) - 1
                      THEN pc' = "done"
                      ELSE pc' = "loop" /\ i' = i + 1]_vars

C18_Witness ==
    /\ Attempting
    /\ Len(allRpcUrls) = 3
    /\ Len(log) = 2
    /\ log[1].invoked
    /\ log[1].url = allRpcUrls[1]
    /\ ~log[2].invoked
    /\ conn = allRpcUrls[3]
    /\ kind = "getBalance"

(* a call of the first kind starts *)
CallStarts == pc \in {"idle", "done"} /\ pc' = "loop"

(* retryFunc's second argument in the operation k *)
FallbackOf(k) == IF k = "getBalance" THEN StrDefault("0") ELSE Null

(* C19: no step changes the endpoint pool; every call, whatever calls ran  *)
(* before it and whatever call runs beside it, starts with index 0, no     *)
(* attempts, no connection and no result, as the first call of a new       *)
(* adapter does, and tries the endpoints in the pool's order from the      *)
(* first; a step of one call changes nothing of the other.                 *)
C19_NoStateBetweenCalls ==
    /\ [][/\ allRpcUrls' = allRpcUrls
          /\ CallStarts
                => /\ i' = 0 /\ log' = <<>> /\ conn' = "" /\ result' = NoResult
                   /\ msgs' = <<>> /\ accepted' = {} /\ receipts' = {} /\ waitErrs' = {}
                   /\ defaultResponse' = FallbackOf(kind')
          /\ (other.pc \in {"idle", "done"} /\ other'.pc = "loop")
                => (other'.i = 0 /\ other'.tried = <<>>)
          /\ other' # other => UNCHANGED callVars
          /\ callVars' # callVars => other' = other]_vars
    /\ [](/\ \A k \in 1..Len(log) : log[k].invoked => log[k].url = allRpcUrls[k]
          /\ \A k \in 1..Len(other.tried) : other.tried[k] = allRpcUrls[k]
          /\ Attempting => conn = allRpcUrls[Len(log) + 1]
          /\ other.pc = "cb" => Len(other.tried) = other.i + 1)

C19_Witness ==
    /\ Len(allRpcUrls) = 3
    /\ kind = "send"
    /\ payload # None
    /\ pc = "cb"
    /\ i = 0
    /\ conn = allRpcUrls[1]
    /\ other.pc = "cb"
    /\ other.i = 2

(* C20: with an empty endpoint pool a call never invokes its operation and *)
(* never builds a connection; when it has ended it has returned undefined: *)
(* not the fallback (getBalance's '0'), and nothing was raised.            *)
C20_EmptyPoolYieldsUndefined ==
    Len(allRpcUrls) = 0
        => /\ ~Attempting
           /\ log = <<>>
           /\ conn = ""
           /\ msgs = <<>>
           /\ pc = "done" => result = [how |-> "returned", val |-> Undefined]

C20_Witness ==
    /\ Len(allRpcUrls) = 0
    /\ kind = "getBalance"
    /\ defaultResponse = StrDefault("0")
    /\ pc = "done"
    /\ result.how = "returned"
    /\ result.val.t = "undefined"

====
